---- MODULE Spec2Model ----
(***************************************************************************)
(* Chatey: the session registry and the broadcast relay of the server, and *)
(* the handlers of the client.                                             *)
(*                                                                         *)
(* One tokio task per accepted connection (server/src/main.rs:75-137).     *)
(* The tasks share two maps behind tokio mutexes: active_websockets        *)
(* (address -> sender half of the task's unbounded channel) and            *)
(* connection_to_username (address -> name).                               *)
(*                                                                         *)
(* The username mutex is only ever held inside one statement with no       *)
(* await under it, so its critical sections are folded into the actions.   *)
(* The registry mutex is held across an await in the None arm of           *)
(* handle_received_from_client (main.rs:196-204), and across the send loop *)
(* of broadcast_message (main.rs:219-237), so it is a variable.            *)
(*                                                                         *)
(* What a future holds while it is suspended (a frame it has read, a       *)
(* message it has dequeued) is visible to no other task.  An action is     *)
(* therefore one completed branch of the select!, and what the losing      *)
(* branch had taken when it was dropped is an input of that action.  The   *)
(* runtime is multi-threaded (#[tokio::main]), so a future can find the    *)
(* registry mutex taken by a task running on another worker at any lock(), *)
(* and the tasks on the other workers run while broadcast_message is       *)
(* between its lock() and the drop of its guard.                           *)
(*                                                                         *)
(* What the clients do is fixed by the initial state: the address each     *)
(* connection comes from (ip) and what its frames say about their sender   *)
(* (forged), and which of the connections ever arrive.  The specifications *)
(* differ in the clients they admit and in whether the clock is seen to    *)
(* advance.                                                                *)
(*                                                                         *)
(* The client (client/src/handlers.rs, client/src/tui.rs) has a state of   *)
(* its own: the history, the notifier channel towards the TUI and the      *)
(* input channel from it.  ClientSpec runs one client against a server     *)
(* that may write any frame; the server specifications leave the client    *)
(* state alone.                                                            *)
(***************************************************************************)
EXTENDS Integers, Sequences, FiniteSets, TLC

\* ---- bounds ------------------------------------------------------------
NumPeers == 4
MaxClients == 3
MaxFrames == 2
MaxFaults == 1
MaxSenders == 1
MaxTicks == 1
MaxCalls == 4
MaxInputs == 2

Peers == 1..NumPeers
Clients == 1..MaxClients
Addrs == 1..NumPeers
NoOne == 0
NoName == "<none>"
UserNames == {"bob"}
ForgedNames == {"eve"}
SYSTEM == "SYSTEM"
\* main.rs:84: any text frame is taken as the name, the server's own included.
AnyNames == UserNames \cup {SYSTEM}
NoFanout == [by |-> NoOne]

VARIABLES
    pc,                     \* position of each session task
    ip,                     \* the address each connection comes from
    forged,                 \* the sender name the frames of each client claim
    active_websockets,      \* the PeerMap: address -> owner of the channel
    connection_to_username, \* the UsernameMap (NoName: no entry)
    registry_lock,          \* task holding the PeerMap mutex, or NoOne
    fanout,                 \* locals of the broadcast_message that is running
    rx,                     \* messages queued in each task's channel
    sink_buf,               \* frames left in the write half by a cancelled send
    stream_ended,           \* the read half has returned None
    frames_read,            \* frames each session has read in the Active loop
    delivered,              \* history: messages written to each client
    wire,                   \* text frames written to each client connection
    now,                    \* the monotonic clock
    taken,                  \* history: frames read, with the peers Active then
    dropped,                \* history: frames and messages lost with a dropped future
    pruned,                 \* history: entries removed by a broadcast, and its message
    malformed,              \* history: reads that returned an error in the loop
    removals,               \* history: what each remove of main.rs:197 found
    faults,                 \* failures the connections have produced so far
    history,                \* client: the Vec<ClientMessage> the TUI renders
    notifier_rx,            \* client: notifications queued for the TUI
    receiver,               \* client: inputs queued from the TUI for the server
    tui,                    \* client: position of run_chat
    stream_write,           \* client: frames written to the server
    notified,               \* client history: calls of notifier_tx.send
    results                 \* client history: what each handler call met and returned

server_vars == <<pc, ip, forged, active_websockets, connection_to_username,
                 registry_lock, fanout, rx, sink_buf, stream_ended,
                 frames_read, delivered, wire, now, taken, dropped, pruned,
                 malformed, removals, faults>>

client_vars == <<history, notifier_rx, receiver, tui, stream_write, notified,
                 results>>

vars == <<server_vars, client_vars>>

\* ---- ChatMessage (shared/src/lib.rs) -----------------------------------
\* ChatMessage::build: the address, the name and the body are stored as
\* given and the message is stamped with the clock.
\* A body is either the text of a client frame (the seq-th frame of the
\* connection, and the sender name that text claims) or one of the two
\* formatted notice sentences.
ChatMessage_build(socket, username, body) ==
    [from_addr |-> socket, from_username |-> username, timestamp |-> now,
     kind |-> body.kind, who |-> body.who, seq |-> body.seq]

FrameBody(n) == [kind |-> "user", who |-> NoName, seq |-> n]
EnteredBody(username) == [kind |-> "entered", who |-> username, seq |-> 0]
ExitedBody(username) == [kind |-> "exited", who |-> username, seq |-> 0]

\* ChatMessage::get_message.
get_message(input) == [kind |-> input.kind, who |-> input.who, seq |-> input.seq]

\* ---- ClientMessage (shared/src/lib.rs) ---------------------------------
\* ClientMessage::new: the message is stamped with the clock.
ClientMessage_new(from_username, input_message) ==
    [input_message |-> input_message, from_username |-> from_username,
     timestamp |-> now]

\* ClientMessage::from.
ClientMessage_from(input) ==
    ClientMessage_new(input.from_username, get_message(input))

\* serde_json::to_string of the derived Serialize: the fields in the order
\* of the struct, each under its name.
to_string(client_msg) ==
    <<"input_message", client_msg.input_message,
      "from_username", client_msg.from_username,
      "timestamp", client_msg.timestamp>>

\* serde_json::from_str of the derived Deserialize (client/src/handlers.rs:61).
from_str(text) ==
    LET Field(name) ==
            text[(CHOOSE i \in DOMAIN text : i % 2 = 1 /\ text[i] = name) + 1]
    IN  [input_message |-> Field("input_message"),
         from_username |-> Field("from_username"),
         timestamp |-> Field("timestamp")]

\* serde_json::from_str returns Ok: the text is an object that has every
\* field of the struct.
from_str_is_ok(text) ==
    /\ Len(text) > 0
    /\ Len(text) % 2 = 0
    /\ \A name \in {"input_message", "from_username", "timestamp"} :
           \E i \in DOMAIN text : i % 2 = 1 /\ text[i] = name

\* main.rs:247-252: what handle_received_from_server writes for a message.
Serialized(message) == to_string(ClientMessage_from(message))

\* ---- the maps -----------------------------------------------------------
\* The keys of a PeerMap.
Keys(actives) == {addr \in Addrs : actives[addr] # NoOne}

\* HashMap::insert: the value under the key is replaced.
insert(actives, addr, tx) == [actives EXCEPT ![addr] = tx]

\* HashMap::remove.
remove(actives, addr) == [actives EXCEPT ![addr] = NoOne]

\* The task's entry is in the map.
Registered(p) == active_websockets[ip[p]] = p

\* ---- channels ----------------------------------------------------------
\* The receiver half lives in the task; it is dropped when the task returns.
RxClosed(p) == pc[p] = "exited"

\* A channel that hands out the newest message first.
sender_send_front(queue, message) == <<message>> \o queue

\* UnboundedSender::send on an open channel.
sender_send(queue, message) == Append(queue, message)

\* ---- broadcast_message (main.rs:215-237) -------------------------------
\* A loop without the `continue` of main.rs:222-224.
SendTargets_all(message, actives) == Keys(actives)

\* The entries the loop does not skip.
SendTargets(message, actives) ==
    {addr \in Keys(actives) : addr # message.from_addr}

\* A bounded channel fed with try_send: a send to a queue that still holds
\* a message fails as well.
inactive_addrs_full(message, actives) ==
    {addr \in SendTargets(message, actives) :
        RxClosed(actives[addr]) \/ rx[actives[addr]] # <<>>}

\* The entries whose send returned Err: UnboundedSender::send fails only
\* when the receiver half has been dropped.
inactive_addrs(message, actives) ==
    {addr \in SendTargets(message, actives) : RxClosed(actives[addr])}

\* A loop that gives up at a failed send, met before any other entry.
FanOut_abort(message, actives) ==
    IF inactive_addrs(message, actives) # {}
    THEN rx
    ELSE [q \in Peers |->
            IF \E addr \in SendTargets(message, actives) : actives[addr] = q
            THEN sender_send(rx[q], message)
            ELSE rx[q]]

\* A loop over a copy of the map, run after the lock has been given back:
\* the loop of another broadcast runs between its first send and the rest.
FanOut_torn(message, actives) ==
    LET targets == {q \in Peers :
                        /\ \E addr \in SendTargets(message, actives) :
                              actives[addr] = q
                        /\ ~RxClosed(q)}
        first == CHOOSE q \in targets : \A r \in targets : q <= r
    IN  [q \in Peers |->
            IF q \notin targets THEN rx[q]
            ELSE IF q = first \/ rx[q] = <<>> THEN sender_send(rx[q], message)
            ELSE SubSeq(rx[q], 1, Len(rx[q]) - 1)
                    \o <<message, rx[q][Len(rx[q])]>>]

\* The channels after the fan-out loop.
FanOut(message, actives) ==
    [q \in Peers |->
        IF /\ \E addr \in SendTargets(message, actives) : actives[addr] = q
           /\ ~RxClosed(q)
        THEN sender_send(rx[q], message)
        ELSE rx[q]]

\* The map after the removal loop.
Pruned(inactive, actives) ==
    [addr \in Addrs |-> IF addr \in inactive THEN NoOne ELSE actives[addr]]

\* History of the removal loop.
PrunedBy(message, inactive) ==
    {[addr |-> a, by |-> message] : a \in inactive}

\* broadcast_message of p is between its lock() and the drop of `actives`.
Fanning(p) == fanout.by = p

\* ---- the inbound streams -----------------------------------------------
RECURSIVE SumTo(_, _)
SumTo(f, n) == IF n = 0 THEN 0 ELSE f[n] + SumTo(f, n - 1)

\* Frames the sessions have read from their connections after the name frame.
TotalFrames == SumTo(frames_read, NumPeers)

\* The session is in the loop of main.rs:112-136.
Active(p) == pc[p] = "active"

\* The guard of p on the registry is alive: handle_received_from_client is
\* suspended at the lock() of broadcast_message (main.rs:204 -> 219) with
\* its own guard `sockets`, or broadcast_message of p is running.
HoldsGuard(p) == registry_lock = p

\* handle_received_from_client is suspended at stream_read.next()
\* (main.rs:181) and the connection can produce one more frame: the clients
\* of the first MaxSenders sessions send MaxFrames frames between them.
CanReadFrame(p) ==
    /\ Active(p) /\ ~HoldsGuard(p)
    /\ ~stream_ended[p]
    /\ p <= MaxSenders
    /\ TotalFrames < MaxFrames

\* The select! of p is polling a new handle_received_from_client, which
\* starts with the lookup of main.rs:174-179.
AtLookup(p) == Active(p) /\ ~HoldsGuard(p)

\* main.rs:174-179: what the lookup finds under the session's address;
\* NoName is the None that `ok_or` turns into UnkownClient.
username(p) == connection_to_username[ip[p]]

\* The text of the n-th frame of client p.
FrameText(p, n) == [FrameBody(n) EXCEPT !.who = forged[p]]

\* A server that takes the sender name from the frame when it has one.
NextFrame_trusting(p) ==
    ChatMessage_build(ip[p],
        IF forged[p] # NoName THEN forged[p]
        ELSE connection_to_username[ip[p]],
        FrameText(p, frames_read[p] + 1))

\* The ChatMessage of main.rs:185 for the next frame of p.
NextFrame(p) ==
    ChatMessage_build(ip[p], connection_to_username[ip[p]],
                      FrameText(p, frames_read[p] + 1))

\* History of a frame that has been read: who was in the Active loop then.
Taken(p) ==
    [src |-> p, seq |-> frames_read[p] + 1,
     live |-> {q \in Peers : Active(q) /\ ~stream_ended[q]}]

\* ---- select! (main.rs:112-136) ------------------------------------------
\* The branch that completes drops the other branch's future.
\* What a dropped handle_received_from_server had done:
\*   "idle": it was suspended in rx.recv() (main.rs:244);
\*   "lost": it had dequeued the head of rx and was suspended in write.send
\*           (main.rs:252) still owning the message;
\*   "fed":  the same, but the send had already handed the frame to the
\*           write half, where it stays until the next send flushes it.
Outcomes == {"idle", "lost", "fed"}

\* The write half takes a frame at once unless a frame that a cancelled
\* send left in it is still waiting to be flushed: only then can a send be
\* suspended while it still owns its message.
CanDrop(p, outcome) ==
    \/ outcome = "idle"
    \/ outcome = "fed" /\ rx[p] # <<>>
    \/ outcome = "lost" /\ rx[p] # <<>> /\ sink_buf[p] # <<>>

RxAfterDrop(queue, outcome) == IF outcome = "idle" THEN queue ELSE Tail(queue)

SinkAfterDrop(buf, queue, outcome) ==
    IF outcome = "fed"
    THEN Append(buf, [message |-> Head(queue), text |-> Serialized(Head(queue))])
    ELSE buf

DroppedAfterDrop(p, outcome) ==
    IF outcome = "lost"
    THEN dropped \cup {[at |-> p, side |-> "outbound", message |-> Head(rx[p])]}
    ELSE dropped

\* The messages of the frames in a write half, and their texts.
SinkMessages(buf) == [i \in DOMAIN buf |-> buf[i].message]

SinkTexts(buf) == [i \in DOMAIN buf |-> buf[i].text]

\* ---- Init ---------------------------------------------------------------
\* Every connection that arrives is about to be accepted and upgraded and
\* its task spawned (main.rs:59-75); the task then locks the map (main.rs:78).
Arrive(arriving, addresses, claims) ==
    /\ pc = [p \in Peers |-> IF p \in arriving THEN "spawned" ELSE "absent"]
    /\ ip = addresses
    /\ forged = claims
    /\ active_websockets = [addr \in Addrs |-> NoOne]
    /\ connection_to_username = [addr \in Addrs |-> NoName]
    /\ registry_lock = NoOne
    /\ fanout = NoFanout
    /\ rx = [p \in Peers |-> <<>>]
    /\ sink_buf = [p \in Peers |-> <<>>]
    /\ stream_ended = [p \in Peers |-> FALSE]
    /\ frames_read = [p \in Peers |-> 0]
    /\ delivered = [p \in Peers |-> <<>>]
    /\ wire = [p \in Peers |-> <<>>]
    /\ now = 0
    /\ taken = {}
    /\ dropped = {}
    /\ pruned = {}
    /\ malformed = {}
    /\ removals = {}
    /\ faults = 0
    /\ history = <<>>
    /\ notifier_rx = 0
    /\ receiver = <<>>
    /\ tui = "username"
    /\ stream_write = <<>>
    /\ notified = 0
    /\ results = <<>>

\* The first MaxClients connections arrive.
Start(addresses, claims) == Arrive(Clients, addresses, claims)

\* Every connection has an address of its own.
OwnAddress == [p \in Peers |-> p]

\* Every client sends plain text.
PlainText == [p \in Peers |-> NoName]

\* A connection comes from an address of its own or from the address of an
\* earlier connection.
Reconnects ==
    {f \in [Peers -> Addrs] :
        \A p \in Peers :
            \/ f[p] = p
            \/ p \in Clients /\ \E q \in 1..(p - 1) : f[p] = f[q]}

\* The clients that send frames may write a sender name into them.
Forgeries ==
    {f \in [Peers -> ForgedNames \cup {NoName}] :
        \A p \in Peers : p > MaxSenders => f[p] = NoName}

Init == Start(OwnAddress, PlainText)

ReuseInit == \E addresses \in Reconnects : Start(addresses, PlainText)

ForgeInit == \E claims \in Forgeries : Start(OwnAddress, claims)

\* Every connection arrives.
CrowdInit == Arrive(Peers, OwnAddress, PlainText)

\* ---- the session task (main.rs:75-137) ----------------------------------
\* main.rs:59, 77-78: the connection is accepted (no other connection from
\* its address is open), the channel is created, the map is locked, the
\* sender is inserted, the map is unlocked.
\* The tasks are interchangeable; they are numbered in the order they get here.
Register(p) ==
    /\ pc[p] = "spawned"
    /\ \A q \in Peers : q < p => pc[q] # "spawned"
    /\ \A q \in Peers \ {p} :
          ip[q] = ip[p] => pc[q] \in {"spawned", "exited"}
    /\ registry_lock = NoOne
    /\ active_websockets' = insert(active_websockets, ip[p], p)
    /\ pc' = [pc EXCEPT ![p] = "handshake"]
    /\ UNCHANGED client_vars
    /\ UNCHANGED <<ip, forged, connection_to_username, registry_lock, fanout,
                   rx, sink_buf, stream_ended, frames_read, delivered, wire,
                   now, taken, dropped, pruned, malformed, faults, removals>>

\* main.rs:82-84, 103: the first frame is the name; it goes into the name table.
HandshakeName(p, name) ==
    /\ pc[p] = "handshake"
    /\ connection_to_username' =
            [connection_to_username EXCEPT ![ip[p]] = name]
    /\ pc' = [pc EXCEPT ![p] = "entering"]
    /\ UNCHANGED client_vars
    /\ UNCHANGED <<ip, forged, active_websockets, registry_lock, fanout, rx,
                   sink_buf, stream_ended, frames_read, delivered, wire, now,
                   taken, dropped, pruned, malformed, faults, removals>>

\* A handshake failure that announces the departure of the connection.
HandshakeFail_notice(p) ==
    /\ pc[p] = "handshake"
    /\ faults < MaxFaults
    /\ faults' = faults + 1
    /\ pc' = [pc EXCEPT ![p] = "closing"]
    /\ rx' = FanOut(ChatMessage_build(ip[p], SYSTEM, ExitedBody(NoName)),
                    active_websockets)
    /\ UNCHANGED client_vars
    /\ UNCHANGED <<ip, forged, active_websockets, connection_to_username,
                   registry_lock, fanout, sink_buf, stream_ended, frames_read,
                   delivered, wire, now, taken, dropped, pruned, malformed,
                   removals>>

\* main.rs:85-98: the first read is an error or None; the task goes on to
\* close_websocket_stream.
HandshakeFail(p) ==
    /\ pc[p] = "handshake"
    /\ faults < MaxFaults
    /\ faults' = faults + 1
    /\ pc' = [pc EXCEPT ![p] = "closing"]
    /\ UNCHANGED client_vars
    /\ UNCHANGED <<ip, forged, active_websockets, connection_to_username,
                   registry_lock, fanout, rx, sink_buf, stream_ended,
                   frames_read, delivered, wire, now, taken, dropped, pruned,
                   malformed, removals>>

\* The task returns: every local is dropped, the receiver half and any
\* guard included.
TaskReturn(p) ==
    /\ pc' = [pc EXCEPT ![p] = "exited"]
    /\ rx' = [rx EXCEPT ![p] = <<>>]
    /\ sink_buf' = [sink_buf EXCEPT ![p] = <<>>]
    /\ registry_lock' = IF registry_lock = p THEN NoOne ELSE registry_lock

\* main.rs:87-98, 144-163: close_websocket_stream finishes, the task returns.
CloseDone(p) ==
    /\ pc[p] = "closing"
    /\ TaskReturn(p)
    /\ UNCHANGED client_vars
    /\ UNCHANGED <<ip, forged, active_websockets, connection_to_username,
                   fanout, stream_ended, frames_read, delivered, wire, now,
                   taken, dropped, pruned, malformed, faults, removals>>

\* ---- broadcast_message (main.rs:215-237) --------------------------------
\* main.rs:216-230: the map is locked and the message is sent to every entry
\* but the sender's; the entries whose send failed are collected.
BroadcastSend(p, message) ==
    /\ registry_lock = NoOne
    /\ registry_lock' = p
    /\ rx' = FanOut(message, active_websockets)
    /\ fanout' = [by |-> p, message |-> message,
                  inactive |-> inactive_addrs(message, active_websockets)]

\* main.rs:106-109: the entry notice is built and broadcast_message runs up
\* to the end of its send loop.
EntryBroadcast(p) ==
    /\ pc[p] = "entering"
    /\ BroadcastSend(p, ChatMessage_build(ip[p], SYSTEM,
                            EnteredBody(connection_to_username[ip[p]])))
    /\ UNCHANGED client_vars
    /\ UNCHANGED <<pc, ip, forged, active_websockets, connection_to_username,
                   sink_buf, stream_ended, frames_read, delivered, wire, now,
                   taken, dropped, pruned, malformed, faults, removals>>

\* ---- handle_received_from_client wins (main.rs:115-125, 167-212) ---------
\* main.rs:181-188, 216-230: the read yields Some(Ok(message)); the frame is
\* wrapped and broadcast_message runs up to the end of its send loop.
UserBroadcast(p) ==
    /\ CanReadFrame(p)
    /\ BroadcastSend(p, NextFrame(p))
    /\ frames_read' = [frames_read EXCEPT ![p] = @ + 1]
    /\ taken' = taken \cup {Taken(p)}
    /\ UNCHANGED client_vars
    /\ UNCHANGED <<pc, ip, forged, active_websockets, connection_to_username,
                   sink_buf, stream_ended, delivered, wire, now, dropped,
                   pruned, malformed, faults, removals>>

\* main.rs:232-237: the collected entries are removed and the guard is
\* dropped.  After the entry notice the task enters the loop (main.rs:112);
\* in the loop the handler returns Ok(ResponseSuccessful) (main.rs:189) and
\* the select! drops the other branch.
BroadcastDone(p, outcome) ==
    /\ Fanning(p)
    /\ pc[p] = "entering" => outcome = "idle"
    /\ CanDrop(p, outcome)
    /\ active_websockets' = Pruned(fanout.inactive, active_websockets)
    /\ pruned' = pruned \cup PrunedBy(fanout.message, fanout.inactive)
    /\ registry_lock' = NoOne
    /\ fanout' = NoFanout
    /\ pc' = [pc EXCEPT ![p] = "active"]
    /\ rx' = [rx EXCEPT ![p] = RxAfterDrop(@, outcome)]
    /\ sink_buf' = [sink_buf EXCEPT ![p] = SinkAfterDrop(@, rx[p], outcome)]
    /\ dropped' = DroppedAfterDrop(p, outcome)
    /\ UNCHANGED client_vars
    /\ UNCHANGED <<ip, forged, connection_to_username, stream_ended,
                   frames_read, delivered, wire, now, taken, malformed,
                   faults, removals>>

\* A read error that ends the session like a closed connection.
ReadErr_fatal(p, outcome) ==
    /\ Active(p) /\ ~HoldsGuard(p)
    /\ ~stream_ended[p]
    /\ faults < MaxFaults
    /\ faults' = faults + 1
    /\ outcome = "idle"
    /\ malformed' = malformed \cup {[at |-> p, after |-> frames_read[p]]}
    /\ TaskReturn(p)
    /\ UNCHANGED client_vars
    /\ UNCHANGED <<ip, forged, active_websockets, connection_to_username,
                   fanout, stream_ended, frames_read, delivered, wire, now,
                   taken, dropped, pruned, removals>>

\* main.rs:183, 192 and 118: the read yields Some(Err); MalformedMessage is
\* logged and the loop goes on.
ReadErr(p, outcome) ==
    /\ Active(p) /\ ~HoldsGuard(p)
    /\ ~stream_ended[p]
    /\ faults < MaxFaults
    /\ faults' = faults + 1
    /\ CanDrop(p, outcome)
    /\ malformed' = malformed \cup {[at |-> p, after |-> frames_read[p]]}
    /\ rx' = [rx EXCEPT ![p] = RxAfterDrop(@, outcome)]
    /\ sink_buf' = [sink_buf EXCEPT ![p] = SinkAfterDrop(@, rx[p], outcome)]
    /\ dropped' = DroppedAfterDrop(p, outcome)
    /\ UNCHANGED client_vars
    /\ UNCHANGED <<pc, ip, forged, active_websockets, connection_to_username,
                   registry_lock, fanout, stream_ended, frames_read,
                   delivered, wire, now, taken, pruned, removals>>

\* A removal that takes a missing entry for a broken invariant and panics.
ReadNone_strict(p) ==
    /\ Active(p) /\ ~HoldsGuard(p)
    /\ stream_ended[p] \/ faults < MaxFaults
    /\ registry_lock = NoOne
    /\ faults' = IF stream_ended[p] THEN faults ELSE faults + 1
    /\ stream_ended' = [stream_ended EXCEPT ![p] = TRUE]
    /\ active_websockets' = remove(active_websockets, ip[p])
    /\ removals' = removals \cup
            {[at |-> p, found |-> ip[p] \in Keys(active_websockets)]}
    /\ IF ip[p] \in Keys(active_websockets)
       THEN /\ registry_lock' = p
            /\ UNCHANGED <<pc, rx, sink_buf>>
       ELSE TaskReturn(p)
    /\ UNCHANGED client_vars
    /\ UNCHANGED <<ip, forged, connection_to_username, fanout, frames_read,
                   delivered, wire, now, taken, dropped, pruned, malformed>>

\* A None arm that also takes the session's name out of the name table.
ReadNone_forget(p) ==
    /\ Active(p) /\ ~HoldsGuard(p)
    /\ stream_ended[p] \/ faults < MaxFaults
    /\ registry_lock = NoOne
    /\ faults' = IF stream_ended[p] THEN faults ELSE faults + 1
    /\ stream_ended' = [stream_ended EXCEPT ![p] = TRUE]
    /\ registry_lock' = p
    /\ active_websockets' = remove(active_websockets, ip[p])
    /\ connection_to_username' =
            [connection_to_username EXCEPT ![ip[p]] = NoName]
    /\ removals' = removals \cup
            {[at |-> p, found |-> ip[p] \in Keys(active_websockets)]}
    /\ UNCHANGED client_vars
    /\ UNCHANGED <<pc, ip, forged, fanout, rx, sink_buf, frames_read,
                   delivered, wire, now, taken, dropped, pruned, malformed>>

\* main.rs:194-204: the read yields None; the guard `sockets` is taken, the
\* own entry is removed, and broadcast_message is awaited with the guard
\* still alive.  tokio's Mutex is not reentrant: the lock() inside
\* broadcast_message cannot succeed while this future exists, so the future
\* stays at that await (HoldsGuard) until the other branch drops it.
ReadNone(p) ==
    /\ Active(p) /\ ~HoldsGuard(p)
    /\ stream_ended[p] \/ faults < MaxFaults
    /\ registry_lock = NoOne
    /\ faults' = IF stream_ended[p] THEN faults ELSE faults + 1
    /\ stream_ended' = [stream_ended EXCEPT ![p] = TRUE]
    /\ registry_lock' = p
    /\ active_websockets' = remove(active_websockets, ip[p])
    /\ removals' = removals \cup
            {[at |-> p, found |-> ip[p] \in Keys(active_websockets)]}
    /\ UNCHANGED client_vars
    /\ UNCHANGED <<pc, ip, forged, connection_to_username, fanout, rx,
                   sink_buf, frames_read, delivered, wire, now, taken,
                   dropped, pruned, malformed>>

\* ---- handle_received_from_server wins (main.rs:126-134, 240-270) ---------
\* main.rs:244-257: recv yields a message, it is converted, serialized and
\* written to the client (after what an earlier dropped send left in the
\* write half); Ok(ResponseSuccessful).  The dropped
\* handle_received_from_client releases the guard it held; with frame_lost
\* it had read a frame and was suspended at the lock() of broadcast_message
\* (main.rs:188 -> 219).
Relay(p, frame_lost) ==
    /\ Active(p) /\ ~Fanning(p)
    /\ rx[p] # <<>>
    /\ frame_lost => CanReadFrame(p)
    /\ delivered' = [delivered EXCEPT ![p] =
            Append(@ \o SinkMessages(sink_buf[p]), Head(rx[p]))]
    /\ wire' = [wire EXCEPT ![p] =
            Append(@ \o SinkTexts(sink_buf[p]), Serialized(Head(rx[p])))]
    /\ rx' = [rx EXCEPT ![p] = Tail(@)]
    /\ sink_buf' = [sink_buf EXCEPT ![p] = <<>>]
    /\ registry_lock' = IF registry_lock = p THEN NoOne ELSE registry_lock
    /\ frames_read' = IF frame_lost
                      THEN [frames_read EXCEPT ![p] = @ + 1] ELSE frames_read
    /\ taken' = IF frame_lost THEN taken \cup {Taken(p)} ELSE taken
    /\ dropped' = IF frame_lost
                  THEN dropped \cup {[at |-> p, side |-> "inbound",
                                      message |-> NextFrame(p)]}
                  ELSE dropped
    /\ UNCHANGED client_vars
    /\ UNCHANGED <<pc, ip, forged, active_websockets, connection_to_username,
                   fanout, stream_ended, now, pruned, malformed, faults,
                   removals>>

\* main.rs:252-255 and 129-132: recv yields a message, the write fails;
\* ConnectionDropped; the task returns.
WriteErr(p) ==
    /\ Active(p) /\ ~Fanning(p)
    /\ rx[p] # <<>>
    /\ faults < MaxFaults
    /\ faults' = faults + 1
    /\ TaskReturn(p)
    /\ UNCHANGED client_vars
    /\ UNCHANGED <<ip, forged, active_websockets, connection_to_username,
                   fanout, stream_ended, frames_read, delivered, wire, now,
                   taken, dropped, pruned, malformed, removals>>

\* ---- the clock -----------------------------------------------------------
\* Instant::now() has advanced.
Tick ==
    /\ now < MaxTicks
    /\ now' = now + 1
    /\ UNCHANGED client_vars
    /\ UNCHANGED <<pc, ip, forged, active_websockets, connection_to_username,
                   registry_lock, fanout, rx, sink_buf, stream_ended,
                   frames_read, delivered, wire, taken, dropped, pruned,
                   malformed, faults, removals>>

\* ---- the client (client/src/handlers.rs, client/src/tui.rs) --------------
\* The client runs run_chat in a task of its own and calls the two handlers
\* over and over; a call is one step.  The tasks meet in `history`, in the
\* notifier channel and in the input channel.
CLIENT_USERNAME == "You"

\* What the user types as the n-th message.
Typed(n) == FrameBody(n)

\* Messages the user has entered so far.
Entered ==
    Cardinality({i \in DOMAIN history :
                    history[i].from_username = CLIENT_USERNAME})

\* Text frames a server may write: encoded messages, an empty text, an
\* object that lacks a field.
GoodTexts ==
    {to_string(ClientMessage_new(name, FrameBody(1))) :
        name \in UserNames \cup {SYSTEM}}

BadTexts == {<<>>, <<"input_message", FrameBody(1), "from_username", "bob">>}

\* What stream_read.next() can yield (handlers.rs:59).
StreamItems ==
    {[item |-> "frame", text |-> t] : t \in GoodTexts \cup BadTexts}
        \cup {[item |-> "error", text |-> <<>>], [item |-> "none", text |-> <<>>]}

\* run_chat holds the receiver of the notifier channel and the sender of
\* the input channel until it returns.
TuiRunning == tui # "returned"

\* UnboundedSender::send on the notifier channel (handlers.rs:67).
notifier_tx_send(queued) == IF TuiRunning THEN queued + 1 ELSE queued

\* The log of handler calls.
Returned(handler, met, result) ==
    Append(results, [handler |-> handler, met |-> met, result |-> result])

\* A handler that takes every frame it reads for a message, and tells the TUI.
handle_server_message_any(next) ==
    /\ Len(results) < MaxCalls
    /\ IF next.item = "frame"
       THEN /\ history' = Append(history,
                    IF from_str_is_ok(next.text) THEN from_str(next.text)
                    ELSE ClientMessage_new(SYSTEM, next.text))
            /\ notifier_rx' = notifier_tx_send(notifier_rx)
            /\ notified' = notified + 1
       ELSE UNCHANGED <<history, notifier_rx, notified>>
    /\ results' = Returned("handle_server_message", next,
                    IF next.item = "none" THEN "ConnectionDropped" ELSE "Ok")
    /\ UNCHANGED <<receiver, tui, stream_write>>
    /\ UNCHANGED server_vars

\* handlers.rs:54-83: one call of handle_server_message, for what the read
\* half yields.
handle_server_message(next) ==
    /\ Len(results) < MaxCalls
    /\ IF next.item = "frame" /\ from_str_is_ok(next.text)
       THEN /\ history' = Append(history, from_str(next.text))
            /\ notifier_rx' = notifier_tx_send(notifier_rx)
            /\ notified' = notified + 1
       ELSE UNCHANGED <<history, notifier_rx, notified>>
    /\ results' = Returned("handle_server_message", next,
                    IF next.item = "none" THEN "ConnectionDropped" ELSE "Ok")
    /\ UNCHANGED <<receiver, tui, stream_write>>
    /\ UNCHANGED server_vars

\* A handler that gives up when the frame cannot be sent to the server.
handle_user_input_strict(sent) ==
    /\ Len(results) < MaxCalls
    /\ IF receiver # <<>>
       THEN /\ receiver' = Tail(receiver)
            /\ stream_write' = IF sent THEN Append(stream_write, Head(receiver))
                               ELSE stream_write
            /\ results' = Returned("handle_user_input",
                            [item |-> IF sent THEN "input" ELSE "unsent",
                             text |-> Head(receiver)],
                            IF sent THEN "Ok" ELSE "ConnectionDropped")
       ELSE /\ ~TuiRunning
            /\ sent
            /\ results' = Returned("handle_user_input",
                            [item |-> "none", text |-> <<>>],
                            "ConnectionDropped")
            /\ UNCHANGED <<receiver, stream_write>>
    /\ UNCHANGED <<history, notifier_rx, tui, notified>>
    /\ UNCHANGED server_vars

\* handlers.rs:28-48: one call of handle_user_input.  recv() yields the
\* oldest queued input, or None once the queue is empty and run_chat has
\* dropped the sender; `sent` tells whether stream_write.send succeeded.
handle_user_input(sent) ==
    /\ Len(results) < MaxCalls
    /\ IF receiver # <<>>
       THEN /\ receiver' = Tail(receiver)
            /\ stream_write' = IF sent THEN Append(stream_write, Head(receiver))
                               ELSE stream_write
            /\ results' = Returned("handle_user_input",
                            [item |-> IF sent THEN "input" ELSE "unsent",
                             text |-> Head(receiver)],
                            "Ok")
       ELSE /\ ~TuiRunning
            /\ sent
            /\ results' = Returned("handle_user_input",
                            [item |-> "none", text |-> <<>>],
                            "ConnectionDropped")
            /\ UNCHANGED <<receiver, stream_write>>
    /\ UNCHANGED <<history, notifier_rx, tui, notified>>
    /\ UNCHANGED server_vars

\* tui.rs:88-99: Enter in the username prompt; the name goes to the input
\* channel and the chat loop starts.
TuiUsername(name) ==
    /\ tui = "username"
    /\ receiver' = Append(receiver, name)
    /\ tui' = "chat"
    /\ UNCHANGED <<history, notifier_rx, stream_write, notified, results>>
    /\ UNCHANGED server_vars

\* tui.rs:194-207: Enter in the chat loop; the input goes to the input
\* channel and into the history under the name "You".
TuiEnter ==
    /\ tui = "chat"
    /\ Entered < MaxInputs
    /\ receiver' = Append(receiver, Typed(Entered + 1))
    /\ history' = Append(history,
                         ClientMessage_new(CLIENT_USERNAME, Typed(Entered + 1)))
    /\ UNCHANGED <<notifier_rx, tui, stream_write, notified, results>>
    /\ UNCHANGED server_vars

\* tui.rs:189-191: a notification is received and the frame is drawn again.
TuiNotified ==
    /\ tui = "chat"
    /\ notifier_rx > 0
    /\ notifier_rx' = notifier_rx - 1
    /\ UNCHANGED <<history, receiver, tui, stream_write, notified, results>>
    /\ UNCHANGED server_vars

\* tui.rs:91, 208: Esc, ctrl-c or a closed keyboard stream; run_chat returns
\* and its ends of the two channels are dropped.
TuiQuit ==
    /\ TuiRunning
    /\ tui' = "returned"
    /\ notifier_rx' = 0
    /\ UNCHANGED <<history, receiver, stream_write, notified, results>>
    /\ UNCHANGED server_vars

ClientNext ==
    \/ \E next \in StreamItems : handle_server_message(next)
    \/ \E sent \in BOOLEAN : handle_user_input(sent)
    \/ \E name \in UserNames : TuiUsername(name)
    \/ TuiEnter
    \/ TuiNotified
    \/ TuiQuit

Next ==
    \/ \E p \in Peers : Register(p)
    \/ \E p \in Peers, name \in UserNames : HandshakeName(p, name)
    \/ \E p \in Peers : HandshakeFail(p)
    \/ \E p \in Peers : CloseDone(p)
    \/ \E p \in Peers : EntryBroadcast(p)
    \/ \E p \in Peers : UserBroadcast(p)
    \/ \E p \in Peers, outcome \in Outcomes : BroadcastDone(p, outcome)
    \/ \E p \in Peers, outcome \in Outcomes : ReadErr(p, outcome)
    \/ \E p \in Peers : ReadNone(p)
    \/ \E p \in Peers, frame_lost \in BOOLEAN : Relay(p, frame_lost)
    \/ \E p \in Peers : WriteErr(p)

\* The steps of connections that do not fail, and the clock.
ClockNext ==
    \/ Tick
    \/ \E p \in Peers : Register(p)
    \/ \E p \in Peers, name \in UserNames : HandshakeName(p, name)
    \/ \E p \in Peers : EntryBroadcast(p)
    \/ \E p \in Peers : UserBroadcast(p)
    \/ \E p \in Peers, outcome \in Outcomes : BroadcastDone(p, outcome)
    \/ \E p \in Peers, frame_lost \in BOOLEAN : Relay(p, frame_lost)

\* The steps of connections that do not fail, with clients that may give
\* any name in the handshake.
NamesNext ==
    \/ \E p \in Peers : Register(p)
    \/ \E p \in Peers, name \in AnyNames : HandshakeName(p, name)
    \/ \E p \in Peers : EntryBroadcast(p)
    \/ \E p \in Peers : UserBroadcast(p)
    \/ \E p \in Peers, outcome \in Outcomes : BroadcastDone(p, outcome)
    \/ \E p \in Peers, frame_lost \in BOOLEAN : Relay(p, frame_lost)

\* The steps of connections that do not fail, in a select! that never
\* drops a future that has taken a frame or a message.
CrowdNext ==
    \/ \E p \in Peers : Register(p)
    \/ \E p \in Peers, name \in UserNames : HandshakeName(p, name)
    \/ \E p \in Peers : EntryBroadcast(p)
    \/ \E p \in Peers : UserBroadcast(p)
    \/ \E p \in Peers : BroadcastDone(p, "idle")
    \/ \E p \in Peers : Relay(p, FALSE)

\* Distinct addresses, plain text, timestamps not told apart.
Spec == Init /\ [][Next]_vars

\* Connections that come from an address used before.
ReuseSpec == ReuseInit /\ [][Next]_vars

\* Clients that write a sender name into their frames.
ForgeSpec == ForgeInit /\ [][Next]_vars

\* The clock advances while the server runs; no connection fails.
ClockSpec == Init /\ [][ClockNext]_vars

\* Clients that may call themselves anything; no connection fails.
NamesSpec == Init /\ [][NamesNext]_vars

\* One connection more; no connection fails and no future is dropped with
\* what it has taken.
CrowdSpec == CrowdInit /\ [][CrowdNext]_vars

\* One client: its handlers and its TUI, with a server that may write
\* anything.
ClientSpec == Init /\ [][ClientNext]_vars

\* ---- fair scheduling -----------------------------------------------------
\* The runtime polls every task that can run, code that does not await runs
\* to its end, and a write that has been started completes or fails; a read
\* half that has ended answers None at once.  Nothing obliges a client to
\* send a name, a frame or a close: the steps that consume client input
\* carry no fairness.
Fairness ==
    \A p \in Peers :
        /\ WF_vars(Register(p))
        /\ WF_vars(CloseDone(p))
        /\ WF_vars(EntryBroadcast(p))
        /\ WF_vars(BroadcastDone(p, "idle"))
        /\ WF_vars(Relay(p, FALSE))
        /\ WF_vars(stream_ended[p] /\ ReadNone(p))

FairSpec == Spec /\ Fairness

\* ---- helpers of the properties -------------------------------------------
Range(seq) == {seq[i] : i \in DOMAIN seq}

Count(seq, message) == Cardinality({i \in DOMAIN seq : seq[i] = message})

\* The connection is up and its session is in the Active loop.
Live(p) == Active(p) /\ ~stream_ended[p]

\* The ChatMessage made of a frame that was read.
FrameOf(t) ==
    ChatMessage_build(ip[t.src], connection_to_username[ip[t.src]],
                      FrameText(t.src, t.seq))

\* The entry notice of main.rs:106.
EntryNotice(p) ==
    ChatMessage_build(ip[p], SYSTEM,
                      EnteredBody(connection_to_username[ip[p]]))

\* The departure notice of main.rs:201.
ExitNotice(p) ==
    ChatMessage_build(ip[p], SYSTEM,
                      ExitedBody(connection_to_username[ip[p]]))

\* Everything that has reached or is on its way to the client of q.
Inbox(q) ==
    Range(rx[q]) \cup Range(SinkMessages(sink_buf[q])) \cup Range(delivered[q])

\* No lock is held and nothing is queued or buffered anywhere.
Settled ==
    /\ registry_lock = NoOne
    /\ \A q \in Peers : rx[q] = <<>> /\ sink_buf[q] = <<>>

\* A session that left the Active loop by returning from it.
ExitedFromActive(p) ==
    pc[p] = "exited" /\ connection_to_username[ip[p]] # NoName

\* ---- C1 ------------------------------------------------------------------
\* C1: every frame an Active peer sends is written to the connection of
\* every other live peer exactly once.  Stated on the states where no work
\* is left: each frame that was read has then been written exactly once to
\* every peer that was live when it was read and still is.
C1_ExactlyOnce ==
    Settled =>
        \A t \in taken :
            \A q \in t.live \ {t.src} :
                Live(q) => Count(delivered[q], FrameOf(t)) = 1

\* ---- C2 ------------------------------------------------------------------
\* C2: a relayed message is never enqueued on the queue registered under its
\* own sender's address, so no peer is sent a message of its own.
C2_NeverToSender ==
    \A p \in Peers : \A message \in Inbox(p) : message.from_addr # ip[p]

\* A frame of a registered sender sits in another peer's queue.
C2_Witness ==
    \E t \in taken, q \in Peers :
        /\ q # t.src
        /\ Registered(t.src)
        /\ FrameOf(t) \in Range(rx[q])

\* ---- C3 ------------------------------------------------------------------
\* A step in which p ran broadcast_message up to the end of its send loop,
\* and one in which it ran it from there to its end.
SendStep(p) == ~Fanning(p) /\ fanout'.by = p

DoneStep(p) == Fanning(p) /\ fanout'.by # p

\* What the send loop does for every entry but the sender's.
C3_SendEffect(p) ==
    /\ fanout'.message =
            IF pc[p] = "entering" THEN EntryNotice(p) ELSE NextFrame(p)
    /\ \A a \in Keys(active_websockets) \ {ip[p]} :
            IF RxClosed(active_websockets[a])
            THEN a \in fanout'.inactive
            ELSE /\ a \notin fanout'.inactive
                 /\ rx'[active_websockets[a]] =
                        Append(rx[active_websockets[a]], fanout'.message)

\* What the removal loop leaves behind.
C3_DoneEffect(p) ==
    \A a \in Addrs :
        active_websockets'[a] =
            IF a \in fanout.inactive THEN NoOne ELSE active_websockets[a]

\* C3: a broadcast removes, in the same call, every target whose channel is
\* closed, and still enqueues the message for every other registered peer
\* except the sender.
C3_PruneAndContinue ==
    [][\A p \in Peers :
          /\ SendStep(p) => C3_SendEffect(p)
          /\ DoneStep(p) => C3_DoneEffect(p)]_vars

\* A was removed by a broadcast whose message is in the queue of a third peer.
C3_Witness ==
    \E r \in pruned, q \in Peers :
        /\ Registered(q)
        /\ ip[q] # r.by.from_addr
        /\ ip[q] # r.addr
        /\ r.addr \notin Keys(active_websockets)
        /\ rx[q] # <<>>
        /\ rx[q][Len(rx[q])] = r.by

\* ---- C4 ------------------------------------------------------------------
\* C4: a connection has a record in the Registry only after its handshake:
\* one that has not sent its name is not registered and is the target of no
\* broadcast.
C4_RegisteredAfterHandshake ==
    \A p \in Peers :
        connection_to_username[ip[p]] = NoName =>
            ~Registered(p) /\ rx[p] = <<>>

\* ---- C5 ------------------------------------------------------------------
\* C5: the Registry never holds a record of a session whose task has returned.
C5_NoExitedRecord ==
    \A p \in Peers : pc[p] = "exited" => ~Registered(p)

\* ---- C6 ------------------------------------------------------------------
\* C6: when the read of an Active peer reports the end of the stream, the
\* peer leaves the Registry and every other registered live peer is sent a
\* notice that names it and says that it left.
C6_DepartureNotice ==
    \A p, q \in Peers :
        (p # q /\ Active(p) /\ stream_ended[p] /\ Registered(q) /\ Live(q))
        ~> (/\ ~Registered(p)
            /\ (ExitNotice(p) \in Range(delivered[q]) \/ ~Live(q)))

\* ---- C7 ------------------------------------------------------------------
\* C7: a lock that is taken is released again, and a session that waits for
\* the lock to register or to broadcast gets it.
C7_LockReleased ==
    /\ \A p \in Peers : (registry_lock = p) ~> (registry_lock = NoOne)
    /\ \A q \in Peers :
           (pc[q] = "entering") ~> (pc[q] \in {"active", "exited"})

C9_PumpEndCloses ==
    \A p \in Peers : (Active(p) /\ stream_ended[p]) ~> (pc[p] = "exited")

\* ---- C10 -----------------------------------------------------------------
\* C10: a session that ends because the write to its client failed has been
\* deregistered, and its departure notice has been relayed to the peers that
\* remain.
C10_WriteFailureTeardown ==
    \A p \in Peers :
        ExitedFromActive(p) =>
            /\ ~Registered(p)
            /\ \A q \in Peers :
                   Registered(q) /\ Live(q) => ExitNotice(p) \in Inbox(q)

\* ---- C11 -----------------------------------------------------------------
\* C11: a registration under an address that already has a record fails:
\* the record stays as it was and the session does not go on as registered.
C11_DuplicateRejected ==
    [][\A p \in Peers :
          (/\ pc[p] = "spawned"
           /\ pc'[p] # "spawned"
           /\ ip[p] \in Keys(active_websockets))
          => (/\ active_websockets' = active_websockets
              /\ pc'[p] # "handshake")]_vars

\* ---- C12 -----------------------------------------------------------------
\* C12: no message is sent under the Registry lock: while the send loop of a
\* broadcast has run and the broadcast has not returned, the lock is free
\* for a registration.
C12_SendOutsideLock ==
    \A p \in Peers : Fanning(p) => registry_lock = NoOne

\* ---- C13 -----------------------------------------------------------------
\* C13: a removal that finds no record changes no record and raises no
\* error: the session that asked for it goes on.
C13_RemoveAbsentNoOp ==
    [][\A p \in Peers :
          (/\ [at |-> p, found |-> FALSE] \in removals'
           /\ [at |-> p, found |-> FALSE] \notin removals)
          => (/\ active_websockets' = active_websockets
              /\ pc' = pc)]_vars

\* A session has removed its record a second time, after its record was
\* gone, and is still in the loop.
C13_Witness ==
    \E p \in Peers :
        /\ [at |-> p, found |-> FALSE] \in removals
        /\ [at |-> p, found |-> TRUE] \in removals
        /\ Active(p)

\* ---- C14 -----------------------------------------------------------------
\* C14: no system notice is ever relayed for a connection whose handshake
\* failed: no peer is sent a notice that comes from its address.
C14_NoNoticeForFailedHandshake ==
    \A p \in Peers :
        (pc[p] \in {"closing", "exited"}
            /\ connection_to_username[ip[p]] = NoName)
        => \A q \in Peers : \A message \in Inbox(q) :
                ~(message.from_addr = ip[p] /\ message.from_username = SYSTEM)

\* A handshake has failed and its task has returned while another peer is
\* live and has been sent messages.
C14_Witness ==
    \E p, q \in Peers :
        /\ pc[p] = "exited"
        /\ connection_to_username[ip[p]] = NoName
        /\ Live(q)
        /\ delivered[q] # <<>>

\* ---- C15 -----------------------------------------------------------------
\* C15: a read error in the Active loop leaves the session in the loop and
\* registered, relays nothing to any peer, and leaves the session able to
\* read the next frame.
C15_ReadErrorNonFatal ==
    [][\A m \in malformed' \ malformed :
          /\ pc'[m.at] = "active"
          /\ active_websockets' = active_websockets
          /\ active_websockets'[ip[m.at]] = m.at
          /\ \A q \in Peers \ {m.at} : rx'[q] = rx[q]
          /\ delivered' = delivered
          /\ frames_read' = frames_read
          /\ CanReadFrame(m.at) => CanReadFrame(m.at)']_vars

\* A frame read after a read error of the same session has been written to
\* another peer.
C15_Witness ==
    \E m \in malformed, q \in Peers :
        /\ q # m.at
        /\ \E i \in DOMAIN delivered[q] :
              /\ delivered[q][i].kind = "user"
              /\ delivered[q][i].from_addr = ip[m.at]
              /\ delivered[q][i].seq = m.after + 1

\* ---- C16 -----------------------------------------------------------------
\* C16: the sender name of a relayed user message is the name its
\* connection gave in the handshake, whatever name the frame itself claims.
C16_SenderNameFromHandshake ==
    \A q \in Peers : \A message \in Inbox(q) :
        message.kind = "user" =>
            /\ message.from_username = connection_to_username[message.from_addr]
            /\ message.from_username \in UserNames

\* A frame that claims another sender name has been written to a peer.
C16_Witness ==
    \E q \in Peers : \E message \in Range(delivered[q]) :
        /\ message.kind = "user"
        /\ message.who \in ForgedNames
        /\ message.who # connection_to_username[message.from_addr]

\* ---- C17 -----------------------------------------------------------------
\* C17: what a client decodes from a frame has the body, the sender name
\* and the timestamp of the ChatMessage the frame was written for.
C17_RoundTrip ==
    \A q \in Peers : \A i \in DOMAIN wire[q] :
        /\ from_str(wire[q][i]).input_message = get_message(delivered[q][i])
        /\ from_str(wire[q][i]).from_username = delivered[q][i].from_username
        /\ from_str(wire[q][i]).timestamp = delivered[q][i].timestamp

\* ---- C18 -----------------------------------------------------------------
\* C18: the entry notice of a session is written exactly once to every live
\* peer that registered before it, and never to the session itself.  Stated
\* for the peers whose queue has been emptied.
C18_EntryNoticeOnce ==
    \A p \in Peers :
        Active(p) =>
            /\ EntryNotice(p) \notin Inbox(p)
            /\ \A q \in 1..(p - 1) :
                   Live(q) /\ rx[q] = <<>> =>
                       Count(delivered[q], EntryNotice(p)) = 1

\* ---- C19 -----------------------------------------------------------------
\* C19: no frame that was read in the Active loop is lost with the future
\* that read it.
C19_FrameNotDropped ==
    \A d \in dropped : d.side # "inbound"

\* ---- C20 -----------------------------------------------------------------
\* C20: no message that was dequeued from a session's queue is lost with
\* the future that dequeued it.
C20_MessageNotDropped ==
    \A d \in dropped : d.side # "outbound"

\* ---- C21 -----------------------------------------------------------------
\* C21: the record of a session whose task is still running leaves the
\* Registry only in a step in which that session removes it itself; the
\* removal loop of a broadcast takes out only records whose receiver has
\* been dropped.
C21_RunningNeverPruned ==
    [][/\ \A p \in Peers :
             (pc[p] # "exited" /\ Registered(p) /\ ~Registered(p)')
             => (/\ [at |-> p, found |-> TRUE] \in removals' \ removals
                 /\ registry_lock' = p)
       /\ \A p \in Peers :
             DoneStep(p) =>
                 \A addr \in Keys(active_websockets) \ Keys(active_websockets') :
                     RxClosed(active_websockets[addr])]_vars

\* A broadcast has removed the record of a task that had returned, and a
\* running session that the same broadcast has sent its message to is
\* still registered.
C21_Witness ==
    \E r \in pruned, q \in Peers :
        /\ r.addr \notin Keys(active_websockets)
        /\ Active(q) /\ Registered(q)
        /\ ip[q] # r.addr
        /\ r.by \in Inbox(q)
        /\ r.by.from_addr # ip[q]
        /\ \E p \in Peers : ip[p] = r.addr /\ pc[p] = "exited"

\* ---- C22 -----------------------------------------------------------------
\* C22: the sender name SYSTEM is reserved for the notices the server
\* makes: no message made of a client frame is sent to a peer under that
\* name, whatever name its client gave in the handshake.
C22_SystemReserved ==
    \A q \in Peers : \A message \in Inbox(q) :
        message.kind = "user" => message.from_username # SYSTEM

\* ---- C23 -----------------------------------------------------------------
\* What the client of q has been sent, is being sent and will be sent, in
\* the order it leaves the session.
Stream(q) == delivered[q] \o SinkMessages(sink_buf[q]) \o rx[q]

\* C23: two messages that two peers both receive reach both in the same
\* relative order, whoever sent them.
C23_SameOrderEverywhere ==
    \A q1 \in Peers : \A q2 \in (q1 + 1)..NumPeers :
            LET s1 == Stream(q1)
                s2 == Stream(q2)
            IN  \A i, j \in DOMAIN s1 :
                    i < j =>
                        \A k, l \in DOMAIN s2 :
                            k < l => ~(s1[i] = s2[l] /\ s1[j] = s2[k])

\* Two peers have both been written a message of one sender and then a
\* message of another.
C23_Witness ==
    \E q1, q2 \in Peers :
        /\ q1 < q2
        /\ \E i, j \in DOMAIN delivered[q1] :
              /\ i < j
              /\ delivered[q1][i].from_addr # delivered[q1][j].from_addr
              /\ \E k, l \in DOMAIN delivered[q2] :
                    /\ k < l
                    /\ delivered[q2][k] = delivered[q1][i]
                    /\ delivered[q2][l] = delivered[q1][j]

\* ---- C24 -----------------------------------------------------------------
\* C24: whenever a session in the Active loop looks its name up, the name
\* table has an entry under its address: the lookup never ends in
\* UnkownClient, whatever the other sessions have done.
C24_NameAlwaysKnown ==
    \A p \in Peers : AtLookup(p) => username(p) # NoName

\* A session is at its lookup after it has read a frame, and another
\* session that had given its name has come and gone.
C24_Witness ==
    \E p, q \in Peers :
        /\ p # q
        /\ AtLookup(p)
        /\ frames_read[p] >= 1
        /\ pc[q] = "exited"
        /\ username(q) # NoName

\* ---- C25 -----------------------------------------------------------------
\* C25: the name table has an entry under an address only while the session
\* of that address is live: once the task has returned, its entry is gone.
C25_NameOnlyWhileLive ==
    \A p \in Peers : pc[p] = "exited" => username(p) = NoName

\* ---- C26 -----------------------------------------------------------------
\* The last call in the log is a call of handle_server_message that this
\* step has made.
ServerMessageStep ==
    /\ Len(results') = Len(results) + 1
    /\ results'[Len(results')].handler = "handle_server_message"

\* The frame that call has read holds a message.
DecodedStep ==
    /\ results'[Len(results')].met.item = "frame"
    /\ from_str_is_ok(results'[Len(results')].met.text)

\* C26: a call of handle_server_message that reads a frame holding a
\* message appends exactly that one entry to the history and sends one
\* notification; any other call appends nothing and sends nothing.
C26_OneEntryOneNotification ==
    [][ServerMessageStep =>
          IF DecodedStep
          THEN /\ history' = Append(history,
                        from_str(results'[Len(results')].met.text))
               /\ notified' = notified + 1
               /\ TuiRunning => notifier_rx' = notifier_rx + 1
          ELSE /\ history' = history
               /\ notified' = notified
               /\ notifier_rx' = notifier_rx]_vars

\* The handler has met a message, a text that is no message and a read
\* error, and the TUI has taken the one notification.
C26_Witness ==
    /\ \E i \in DOMAIN results :
          /\ results[i].handler = "handle_server_message"
          /\ results[i].met.item = "frame"
          /\ from_str_is_ok(results[i].met.text)
    /\ \E i \in DOMAIN results :
          /\ results[i].handler = "handle_server_message"
          /\ results[i].met.item = "frame"
          /\ ~from_str_is_ok(results[i].met.text)
    /\ \E i \in DOMAIN results :
          /\ results[i].handler = "handle_server_message"
          /\ results[i].met.item = "error"
    /\ notified = 1
    /\ notifier_rx = 0
    /\ tui = "chat"
    /\ \E i \in DOMAIN history : history[i].from_username # CLIENT_USERNAME

\* ---- C27 -----------------------------------------------------------------
\* C27: a client handler returns ConnectionDropped exactly when its source
\* has yielded None; every other call returns Ok.
C27_DroppedOnlyAtEnd ==
    \A i \in DOMAIN results :
        results[i].result =
            IF results[i].met.item = "none" THEN "ConnectionDropped" ELSE "Ok"

\* Both handlers have met the end of their source, and a send to the server
\* has failed.
C27_Witness ==
    /\ \E i \in DOMAIN results :
          /\ results[i].handler = "handle_server_message"
          /\ results[i].met.item = "none"
    /\ \E i \in DOMAIN results :
          /\ results[i].handler = "handle_user_input"
          /\ results[i].met.item = "none"
    /\ \E i \in DOMAIN results :
          /\ results[i].handler = "handle_user_input"
          /\ results[i].met.item = "unsent"
    /\ \E i \in DOMAIN results :
          /\ results[i].handler = "handle_server_message"
          /\ results[i].met.item \in {"frame", "error"}
====
